---- MODULE Spec2Model ----
(***************************************************************************)
(* Model of the osrs-nav pathfinding core: pathfinder::dijkstra and        *)
(* pathfinder::flood (src/pathfinder/src/lib.rs) and the benchmark loop of *)
(* the web service (src/webservice/src/main.rs).                           *)
(***************************************************************************)
EXTENDS Integers, Sequences, FiniteSets, TLC

\* ------------------------------------------------------------------------
\* Bounds of the model (the real grid is 6400 x 4000 cells).
WIDTH == 4
HEIGHT == 4
BenchIters == 2
FloodRuns == 2

\* ------------------------------------------------------------------------
\* u32. The integers of TLC are 32-bit signed, so a u32 is kept as
\* its two 16-bit halves <<high, low>>; the order and the sums below are
\* the ones of the machine type.
LIMB == 65536
\* the u32 of a natural number below 2^31
U32(n) == <<n \div LIMB, n % LIMB>>
\* u32::MAX, 4294967295
U32_MAX == <<LIMB - 1, LIMB - 1>>
\* the natural number of a u32 below 2^31
Nat32(u) == u[1] * LIMB + u[2]
LtU32(a, b) == a[1] < b[1] \/ (a[1] = b[1] /\ a[2] < b[2])
LeU32(a, b) == a = b \/ LtU32(a, b)
\* `d as u32` of an i32: two's complement
AsU32(d) == IF d >= 0 THEN U32(d) ELSE <<LIMB - 1, LIMB + d>>
\* a + b: the wrapped sum, and whether the exact sum left the type
AddU32(a, b) ==
  LET lo == a[2] + b[2]
      hi == a[1] + b[1] + (lo \div LIMB)
  IN  [value |-> <<hi % LIMB, lo % LIMB>>, overflow |-> hi >= LIMB]
\* w * b for a factor w below 2^15: the wrapped product, and whether the
\* exact product left the type
MulU32(w, b) ==
  LET lo == w * b[2]
      hi == w * b[1] + (lo \div LIMB)
  IN  [value |-> <<hi % LIMB, lo % LIMB>>, overflow |-> hi >= LIMB]


N == WIDTH * HEIGHT
Indices == 0 .. (N - 1)
Mid == WIDTH \div 2

Min(S) == CHOOSE m \in S : \A x \in S : m <= x
Max(S) == CHOOSE m \in S : \A x \in S : x <= m

None == <<>>
Some(x) == <<x>>

\* ------------------------------------------------------------------------
\* model::Coordinate
Coordinates == (0 .. (WIDTH - 1)) \X (0 .. (HEIGHT - 1))
index(c) == c[2] * WIDTH + c[1]
from_index(i) == <<i % WIDTH, i \div WIDTH>>

\* model::constants::DIRECTIONS : (flag, dx, dy)
DIRECTIONS ==
  << <<1, 0, 1>>, <<2, 1, 0>>, <<4, 0, -1>>, <<8, -1, 0>>,
     <<16, 1, 1>>, <<32, 1, -1>>, <<64, -1, -1>>, <<128, -1, 1>> >>
AxisDirs == {1, 2, 3, 4}
AllDirs == 1 .. 8

\* (flags & flag) != 0, flag a power of two
HasFlag(flags, flag) == (flags \div flag) % 2 = 1

\* model::definitions: a Requirement is an opaque predicate over the GameState
Reqs == {1, 2}
GameStates == SUBSET Reqs
is_met(req, game_state) == req \in game_state
AllMet(requirements, game_state) ==
  \A k \in 1 .. Len(requirements) : is_met(requirements[k], game_state)

get_group(v) == v.group
has_extra_edges(v) == v.extra_edges

\* ------------------------------------------------------------------------
\* The movement grids the queries run on.
InGrid(x, y) == x \in 0 .. (WIDTH - 1) /\ y \in 0 .. (HEIGHT - 1)
Side(x) == IF x < Mid THEN 0 ELSE 1

\* passability mask of cell i: the directions of dirs that stay on the grid
\* and, when walled, on the same side of the wall between the two halves
Flags(i, dirs, walled) ==
  LET x == i % WIDTH
      y == i \div WIDTH
      f(d) == IF /\ d \in dirs
                 /\ InGrid(x + DIRECTIONS[d][2], y + DIRECTIONS[d][3])
                 /\ (walled => Side(x + DIRECTIONS[d][2]) = Side(x))
              THEN DIRECTIONS[d][1] ELSE 0
  IN  f(1) + f(2) + f(3) + f(4) + f(5) + f(6) + f(7) + f(8)

\* an edge of the given natural cost
MkEdge(dest, cost, reqs, def) ==
  [destination |-> from_index(dest), cost |-> U32(cost), requirements |-> reqs, definition |-> def]

MkGrid(name, flagsOf(_), groupOf(_), edges, teleports) ==
  [name |-> name,
   vertices |-> [i \in Indices |->
                   [flags |-> flagsOf(i), extra_edges |-> (i \in DOMAIN edges),
                    group |-> groupOf(i)]],
   edges |-> edges,
   teleports |-> teleports]

OneGroup(i) == 1
SideGroup(i) == 1 + Side(i % WIDTH)
OpenAxis(i) == Flags(i, AxisDirs, FALSE)
OpenAll(i) == Flags(i, AllDirs, FALSE)
WalledAxis(i) == Flags(i, AxisDirs, TRUE)
\* one-way streets: only north and east
OneWay(i) == Flags(i, {1, 2}, FALSE)

GateFrom == Mid - 1
GateTo == Mid

\* fully open, four axis-aligned moves, no extra edges, no teleports
OpenGrid == MkGrid("open", OpenAxis, OneGroup, <<>>, <<>>)

\* two open halves joined only by one edge that carries a requirement
HalvesGrid ==
  MkGrid("halves", WalledAxis, OneGroup,
         (GateFrom :> << MkEdge(GateTo, 2, <<1>>, "gate") >>), <<>>)

\* two halves in different groups, although an edge and a teleport cross
IslandsGrid ==
  MkGrid("islands", WalledAxis, SideGroup,
         (0 :> << MkEdge(N - 1, 1, <<>>, "bridge") >>),
         << MkEdge(GateTo, 1, <<>>, "tele_east") >>)

\* eight directions, teleports, a self-loop, zero-cost edges, an edge cycle
TeleGrid ==
  MkGrid("tele", OpenAll, OneGroup,
         (0 :> << MkEdge(0, 0, <<>>, "loop"), MkEdge(WIDTH, 3, <<>>, "slow"),
                  MkEdge(N - 1, 4, <<2>>, "far") >>)
         @@ (1 :> << MkEdge(0, 0, <<>>, "back"), MkEdge(N - 2, 0, <<1>>, "free") >>)
         @@ ((N - 2) :> << MkEdge(1, 0, <<1>>, "free_back") >>),
         << MkEdge(N - 1, 3, <<>>, "tele_far"),
            MkEdge(WIDTH - 1, 0, <<2>>, "tele_zero"),
            MkEdge(N - 1, 1, <<1, 2>>, "tele_cheap") >>)

\* directed moves only, and an edge from the last cell back to the first
OneWayGrid ==
  MkGrid("oneway", OneWay, OneGroup,
         ((N - 1) :> << MkEdge(0, 1, <<1>>, "return"), MkEdge(N - 1, 2, <<>>, "stay") >>),
         << MkEdge(Mid, 5, <<2>>, "tele_mid") >>)

\* open, and every edge and teleport is free of cost
FreeGrid ==
  MkGrid("free", OpenAxis, OneGroup,
         (0 :> << MkEdge(WIDTH, 0, <<>>, "hop") >>),
         << MkEdge(N - 1, 0, <<1>>, "tele_free") >>)

Grids == {OpenGrid, HalvesGrid, IslandsGrid, TeleGrid, OneWayGrid}
\* the grids the benchmark is run on
BenchGrids == Grids \cup {FreeGrid}

\* every edge of a grid, extra edges and teleports alike
SeqToSet(s) == {s[k] : k \in 1 .. Len(s)}
ExtraEdges(g) == UNION {SeqToSet(g.edges[i]) : i \in DOMAIN g.edges}
AllEdges(g) == ExtraEdges(g) \cup SeqToSet(g.teleports)

\* ------------------------------------------------------------------------
\* State of the program.
VARIABLES
  nav_grid,     \* the NavGrid every query reads
  overflow_checks, \* the build: TRUE with overflow checks (the dev profile),
                \* FALSE without (the release profile)
  stdout,       \* the stdout of the process, which every println! locks, writes
                \* and unlocks: the lines written to it, the lines it has room
                \* for, and what it does with a line when the room is used up
  pc,           \* position of dijkstra: "idle", "seed" (at the head of the
                \* teleport loop; a call asleep in println! stays there),
                \* "write" (println! has returned, line 56 is next), "loop",
                \* "done", "panic"
  start, end,   \* Coordinates of the current query
  game_state,   \* GameState of the current query
  queue,        \* BinaryHeap<DijkstraQueueState>, as the sequence of its entries
  cache,        \* RegionCache<DijkstraCacheState>: index -> (cost, prev, edge)
  result,       \* Option<Vec<Step>> returned by dijkstra
  taken,        \* the entries queue.pop() handed out in the current query, in order
  next_teleport, \* position of the loop over nav_grid.teleports: the teleport
                \* its next iteration looks at, counted from 1
  peer,         \* a second call of dijkstra running at the same time: its own
                \* position, arguments, heap, cache, teleport loop and result
  fpc,          \* position of flood: "idle", "loop", "done", "panic"
  fstart,       \* Coordinate flood starts from
  fqueue,       \* VecDeque<u32> of flood
  fcache,       \* RegionCache<bool> of flood: index -> visited
  visit_vertex, \* the callback given to flood, by the way it answers
  calls,        \* the indices visit_vertex was called with, in order
  runs,         \* the visited sets of the calls of flood that returned
  bpc,          \* position of handle_bench_request: "idle", "bad_request", "panic",
                \* "call", "seed", "loop", "reset", "done"
  ring,         \* its BucketRingBuffer
  lifo,         \* whether a bucket hands out its newest cell first
  iter,         \* the iterations of its loop that are over
  results,      \* what the calls of dijkstra2 returned, in order
  ppc           \* position of handle_path_request: "idle", "bad_request",
                \* "call", "ok", "panic"

searchVars == <<pc, start, end, game_state, queue, cache, result, taken, next_teleport>>
floodVars == <<fpc, fstart, fqueue, fcache, visit_vertex, calls, runs>>
benchVars == <<bpc, ring, lifo, iter, results, ppc>>
vars == <<nav_grid, overflow_checks, stdout, searchVars, peer, floodVars, benchVars>>

\* DijkstraCacheState { cost: u32::MAX, prev: u32::MAX, edge: None }
DefaultCacheState == [cost |-> U32_MAX, prev |-> U32_MAX, edge |-> None]
\* RegionCache::new(default): every index reads as the default
NewCache == [i \in Indices |-> DefaultCacheState]

\* BucketRingBuffer::new(max_cost): max_cost + 1 empty buckets, and the cost
\* the last cell was taken at
RingNew(max_cost) == [buckets |-> [b \in 0 .. max_cost |-> <<>>], cursor |-> 0]

\* RegionCache::new(false)
NewVisited == [i \in Indices |-> FALSE]
\* the callbacks of flood that answer true on every cell, false on every cell
AlwaysTrue == {}
AlwaysFalse == Indices

\* ------------------------------------------------------------------------
\* an arithmetic overflow panics in a build with overflow checks, and wraps
\* in a build without
Panics(overflow) == overflow_checks /\ overflow

\* ------------------------------------------------------------------------
\* impl Ord for DijkstraQueueState
CmpU32(a, b) == IF LtU32(a, b) THEN -1 ELSE IF a = b THEN 0 ELSE 1
\* the costs compared the natural way round: a max-heap on cost
QueueStateCmpNatural(self, other) ==
  LET c == CmpU32(self.cost, other.cost)
  IN  IF c # 0 THEN c ELSE CmpU32(U32(self.index), U32(other.index))
\* equal costs ordered by the smaller index
QueueStateCmpLowIndex(self, other) ==
  LET c == CmpU32(other.cost, self.cost)
  IN  IF c # 0 THEN c ELSE CmpU32(U32(other.index), U32(self.index))
\* lines 29-33: the costs compared in reverse, then the indices
QueueStateCmp(self, other) ==
  LET c == CmpU32(other.cost, self.cost)
  IN  IF c # 0 THEN c ELSE CmpU32(U32(self.index), U32(other.index))

\* the entries handed out in the order they were pushed
HeapTopOldest(q) == 1
\* BinaryHeap::pop: the position of a greatest entry
HeapTop(q) ==
  CHOOSE k \in 1 .. Len(q) : \A j \in 1 .. Len(q) : QueueStateCmp(q[k], q[j]) >= 0
\* BinaryHeap::pop: the entry at position k leaves the heap
RemoveAt(q, k) == SubSeq(q, 1, k - 1) \o SubSeq(q, k + 1, Len(q))
HeapPush(q, e) == Append(q, e)

\* ------------------------------------------------------------------------
\* the predecessor left unwritten
RelaxNoPrev(s, adj_index, new_cost, prev, edge) ==
  IF LtU32(new_cost, s.cache[adj_index].cost)
  THEN [s EXCEPT !.cache[adj_index] =
                   [cost |-> new_cost, prev |-> s.cache[adj_index].prev, edge |-> edge],
                 !.queue = HeapPush(s.queue, [cost |-> new_cost, index |-> adj_index])]
  ELSE s
\* the cost read again from the scratch entry of the popped cell
UsedCostRecorded(entry, c) == c[entry.index].cost
\* lines 63, 83, 95: the cost the relaxations add to is the one bound from
\* the popped entry
UsedCost(entry, c) == entry.cost

\* a relaxation that also writes on an equal cost
RelaxNonStrict(s, adj_index, new_cost, prev, edge) ==
  IF LeU32(new_cost, s.cache[adj_index].cost)
  THEN [s EXCEPT !.cache[adj_index] =
                   [cost |-> new_cost, prev |-> U32(prev), edge |-> edge],
                 !.queue = HeapPush(s.queue, [cost |-> new_cost, index |-> adj_index])]
  ELSE s
\* The body of one relaxation: lines 83-88 and 95-100. s is the state of
\* the call: its cache, its heap, and whether it has panicked.
Relax(s, adj_index, new_cost, prev, edge) ==
  IF LtU32(new_cost, s.cache[adj_index].cost)
  THEN [s EXCEPT !.cache[adj_index] =
                   [cost |-> new_cost, prev |-> U32(prev), edge |-> edge],
                 !.queue = HeapPush(s.queue, [cost |-> new_cost, index |-> adj_index])]
  ELSE s

\* lines 81 and 120: index + (WIDTH * *dy as u32) + *dx as u32, in u32: the
\* wrapped value, and whether the product or one of the sums overflowed
AdjIndex(cur, dx, dy) ==
  LET product == MulU32(WIDTH, AsU32(dy))
      sum1 == AddU32(U32(cur), product.value)
      sum2 == AddU32(sum1.value, AsU32(dx))
  IN  [value |-> sum2.value,
       overflow |-> product.overflow \/ sum1.overflow \/ sum2.overflow]

\* the sum `cost + step` relaxed into adj_index, or the panic of the sum
RelaxSum(s, adj_index, cost, step, prev, edge) ==
  LET sum == AddU32(cost, step)
  IN  IF Panics(sum.overflow) THEN [s EXCEPT !.panic = TRUE]
      ELSE Relax(s, adj_index, sum.value, prev, edge)

\* for (flag, dx, dy) in &DIRECTIONS, from direction d on
RECURSIVE RelaxDirections(_, _, _, _, _)
RelaxDirections(s, v, cur, cost, d) ==
  IF d > Len(DIRECTIONS) \/ s.panic THEN s
  ELSE LET dir == DIRECTIONS[d]
           adj_index == AdjIndex(cur, dir[2], dir[3])
           s2 == IF HasFlag(v.flags, dir[1])
                 THEN IF Panics(adj_index.overflow) THEN [s EXCEPT !.panic = TRUE]
                      ELSE RelaxSum(s, Nat32(adj_index.value), cost, U32(1), cur, None)
                 ELSE s
       IN  RelaxDirections(s2, v, cur, cost, d + 1)

\* the edges relaxed without a look at their requirements
RECURSIVE RelaxEdgesUnchecked(_, _, _, _, _, _)
RelaxEdgesUnchecked(s, edges, gs, cur, cost, k) ==
  IF k > Len(edges) \/ s.panic THEN s
  ELSE LET edge == edges[k]
           s2 == RelaxSum(s, index(edge.destination), cost, edge.cost, cur, Some(edge))
       IN  RelaxEdgesUnchecked(s2, edges, gs, cur, cost, k + 1)

\* for edge in nav_grid.edges.get_vec(&index).unwrap(), from the k-th edge on
RECURSIVE RelaxEdges(_, _, _, _, _, _)
RelaxEdges(s, edges, gs, cur, cost, k) ==
  IF k > Len(edges) \/ s.panic THEN s
  ELSE LET edge == edges[k]
           s2 == IF AllMet(edge.requirements, gs)
                 THEN RelaxSum(s, index(edge.destination), cost, edge.cost, cur, Some(edge))
                 ELSE s
       IN  RelaxEdges(s2, edges, gs, cur, cost, k + 1)

\* lines 78-103: relax every neighbour of the extracted cell
RelaxNeighbours(s, g, gs, cur, cost) ==
  LET v == g.vertices[cur]
      s1 == RelaxDirections(s, v, cur, cost, 1)
  IN  IF has_extra_edges(v) /\ ~s1.panic
      THEN RelaxEdges(s1, g.edges[cur], gs, cur, cost, 1)
      ELSE s1

\* println!: what becomes of a line written to stdout. While there is room
\* the line is written; after that a terminal or a file still takes it, a
\* closed pipe or a full device fails the write, and println! panics, and a
\* pipe that nobody reads keeps the caller asleep in the write.
println(out) ==
  IF out.lines < out.room THEN "written"
  ELSE IF out.after = "takes" THEN "written"
  ELSE out.after
\* stdout with one line more written
Printed(out) == [out EXCEPT !.lines = @ + 1]
\* the stdouts a process is started on
Terminal == [lines |-> 0, room |-> 0, after |-> "takes"]
DevFull == [lines |-> 0, room |-> 0, after |-> "fails"]
HeadOne == [lines |-> 0, room |-> 1, after |-> "fails"]
UnreadPipe == [lines |-> 0, room |-> 0, after |-> "blocks"]
BrokenStdouts == {DevFull, HeadOne, UnreadPipe}

\* the requirements of the teleport not looked at
TeleportPassesUnchecked(c, teleport, gs) ==
  LtU32(teleport.cost, c[index(teleport.destination)].cost)
\* lines 52-54: the requirements of the teleport are met and its cost is
\* below the cost recorded for its destination
TeleportPasses(c, teleport, gs) ==
  /\ AllMet(teleport.requirements, gs)
  /\ LtU32(teleport.cost, c[index(teleport.destination)].cost)
\* line 55: the teleport is printed. When stdout takes the line println!
\* returns; when the write fails println! panics, in every build; when the
\* write blocks the call is asleep in println!.
PrintTeleport(s) ==
  LET line == println(s.stdout)
  IN  IF line = "written" THEN [s EXCEPT !.stdout = Printed(s.stdout)]
      ELSE IF line = "fails" THEN [s EXCEPT !.panic = TRUE]
      ELSE [s EXCEPT !.asleep = TRUE]
\* lines 56-59: the teleport is written to the cache entry of its
\* destination, the predecessor left as it is, and the destination pushed
WriteTeleport(s, teleport) ==
  LET dest == index(teleport.destination)
  IN  [s EXCEPT !.cache[dest].cost = teleport.cost,
                !.cache[dest].edge = Some(teleport),
                !.queue = HeapPush(s.queue, [cost |-> teleport.cost, index |-> dest])]
\* lines 52-60: one iteration of the loop over the teleports
SeedTeleport(s, teleport, gs) ==
  IF TeleportPasses(s.cache, teleport, gs)
  THEN LET printed == PrintTeleport(s)
       IN  IF printed.panic \/ printed.asleep THEN printed
           ELSE WriteTeleport(printed, teleport)
  ELSE s
\* the state an iteration of the teleport loop starts from
SeedState(c, q, out) ==
  [cache |-> c, queue |-> q, stdout |-> out, panic |-> FALSE, asleep |-> FALSE]
\* lines 51-62: the loop over the teleports, from the k-th teleport on
RECURSIVE SeedTeleports(_, _, _, _)
SeedTeleports(s, teleports, gs, k) ==
  IF s.panic \/ s.asleep \/ k > Len(teleports) THEN s
  ELSE SeedTeleports(SeedTeleport(s, teleports[k], gs), teleports, gs, k + 1)

\* enum Step
StepEdge(definition) == [kind |-> "Edge", definition |-> definition]
StepStep(coordinate) == [kind |-> "Step", coordinate |-> coordinate]

\* the walk stopped one cell early, at the cell without predecessor
RECURSIVE PathBackShort(_, _)
PathBackShort(c, i) ==
  IF c[Nat32(i)].prev = U32_MAX THEN <<>>
  ELSE LET state == c[Nat32(i)]
           step == IF state.edge # None
                   THEN StepEdge(state.edge[1].definition)
                   ELSE StepStep(from_index(Nat32(i)))
       IN  <<step>> \o PathBackShort(c, state.prev)

\* lines 65-75: walk the predecessors from the u32 index i, then reverse
RECURSIVE PathBack(_, _)
PathBack(c, i) ==
  IF i = U32_MAX THEN <<>>
  ELSE LET state == c[Nat32(i)]
           step == IF state.edge # None
                   THEN StepEdge(state.edge[1].definition)
                   ELSE StepStep(from_index(Nat32(i)))
       IN  <<step>> \o PathBack(c, state.prev)
Reverse(s) == [k \in 1 .. Len(s) |-> s[Len(s) + 1 - k]]
Reconstruct(c, i) == Reverse(PathBack(c, U32(i)))

\* ------------------------------------------------------------------------
\* pathfinder::dijkstra, one action per stage.
\* a call of dijkstra that has not begun
IdleQuery ==
  [pc |-> "idle", start |-> <<0, 0>>, end |-> <<0, 0>>, game_state |-> {},
   queue |-> <<>>, cache |-> NewCache, result |-> None, next_teleport |-> 1]

\* the state before any call, on one of the given grids
InitOn(grids, builds, stdouts) ==
  /\ nav_grid \in grids
  /\ overflow_checks \in builds
  /\ stdout \in stdouts
  /\ pc = "idle"
  /\ start = <<0, 0>>
  /\ end = <<0, 0>>
  /\ game_state = {}
  /\ queue = <<>>
  /\ cache = NewCache
  /\ result = None
  /\ taken = <<>>
  /\ next_teleport = 1
  /\ peer = IdleQuery
  /\ fpc = "idle"
  /\ fstart = <<0, 0>>
  /\ fqueue = <<>>
  /\ fcache = NewVisited
  /\ visit_vertex = AlwaysTrue
  /\ calls = <<>>
  /\ runs = <<>>
  /\ bpc = "idle"
  /\ ring = RingNew(0)
  /\ lifo = FALSE
  /\ iter = 0
  /\ results = <<>>
  /\ ppc = "idle"

\* the two builds of the crate: with and without overflow checks
Builds == BOOLEAN
\* every grid on a terminal, and the grid on which dijkstra prints most on
\* the stdouts that fail or block
Init ==
  \/ InitOn(Grids, Builds, {Terminal})
  \/ InitOn({TeleGrid}, Builds, BrokenStdouts)

\* the group check left out
GroupsNeverDiffer(g, s, e) == FALSE
\* lines 42-46: the groups differ, return None
GroupsDiffer(g, s, e) ==
  get_group(g.vertices[index(s)]) # get_group(g.vertices[index(e)])

\* lines 41-50: the call, up to the teleport loop
Call(s, e, gs) ==
  /\ start' = s
  /\ end' = e
  /\ game_state' = gs
  /\ IF GroupsDiffer(nav_grid, s, e)
     THEN /\ pc' = "done"
          /\ result' = None
          /\ UNCHANGED <<queue, cache>>
     ELSE /\ pc' = "seed"
          /\ cache' = [NewCache EXCEPT ![index(s)].cost = U32(0)]
          /\ queue' = HeapPush(<<>>, [cost |-> U32(0), index |-> index(s)])
          /\ UNCHANGED result
  /\ taken' = <<>>
  /\ next_teleport' = 1
\* dijkstra is called
Begin(s, e, gs) ==
  /\ pc = "idle"
  /\ Call(s, e, gs)
  /\ UNCHANGED <<nav_grid, overflow_checks, stdout, peer, floodVars, benchVars>>

\* the loop position after the teleport at hand
AfterTeleport(k) == IF k = Len(nav_grid.teleports) THEN "loop" ELSE "seed"

\* lines 51-55: the head of the loop over the teleports. With no teleport
\* left the loop is over; a teleport that fails the tests of lines 52 and 54
\* is passed by; one that passes them is printed (line 55): println! locks
\* stdout, writes the line, unlocks and returns, with nothing written to the
\* cache yet, or it panics; a call asleep in println! takes no step.
Seed ==
  /\ pc = "seed"
  /\ IF next_teleport > Len(nav_grid.teleports)
     THEN /\ pc' = "loop"
          /\ UNCHANGED <<next_teleport, stdout>>
     ELSE IF TeleportPasses(cache, nav_grid.teleports[next_teleport], game_state)
     THEN LET s == PrintTeleport(SeedState(cache, queue, stdout))
          IN  /\ ~s.asleep
              /\ stdout' = s.stdout
              /\ pc' = IF s.panic THEN "panic" ELSE "write"
              /\ UNCHANGED next_teleport
     ELSE /\ next_teleport' = next_teleport + 1
          /\ pc' = AfterTeleport(next_teleport)
          /\ UNCHANGED stdout
  /\ UNCHANGED <<nav_grid, overflow_checks, cache, queue, start, end, game_state, result, taken,
                 peer, floodVars, benchVars>>

\* lines 56-60: the printed teleport is written, and the loop moves on
SeedWrite ==
  /\ pc = "write"
  /\ LET s == WriteTeleport(SeedState(cache, queue, stdout),
                            nav_grid.teleports[next_teleport])
     IN  /\ cache' = s.cache
         /\ queue' = s.queue
  /\ next_teleport' = next_teleport + 1
  /\ pc' = AfterTeleport(next_teleport)
  /\ UNCHANGED <<nav_grid, overflow_checks, stdout, start, end, game_state, result, taken,
                 peer, floodVars, benchVars>>

\* lines 63-104: one iteration of the while loop. An overflow panic ends
\* the call mid-iteration, with the relaxations before it done.
Iterate ==
  /\ pc = "loop"
  /\ queue # <<>>
  /\ LET k == HeapTop(queue)
         top == queue[k]
         rest == RemoveAt(queue, k)
     IN  /\ taken' = Append(taken, top)
         /\ UNCHANGED next_teleport
         /\ IF top.index = index(end)
            THEN /\ result' = Some(Reconstruct(cache, top.index))
                 /\ pc' = "done"
                 /\ queue' = rest
                 /\ UNCHANGED cache
            ELSE LET s == RelaxNeighbours([cache |-> cache, queue |-> rest, panic |-> FALSE],
                                          nav_grid, game_state, top.index, UsedCost(top, cache))
                 IN  /\ cache' = s.cache
                     /\ queue' = s.queue
                     /\ pc' = IF s.panic THEN "panic" ELSE pc
                     /\ UNCHANGED result
  /\ UNCHANGED <<nav_grid, overflow_checks, stdout, start, end, game_state, peer, floodVars, benchVars>>

\* lines 63, 105: the heap is empty, return None
Exhausted ==
  /\ pc = "loop"
  /\ queue = <<>>
  /\ pc' = "done"
  /\ result' = None
  /\ UNCHANGED <<nav_grid, overflow_checks, stdout, start, end, game_state, queue, cache, taken,
                 next_teleport, peer, floodVars, benchVars>>

Next ==
  \/ pc = "idle" /\ \E s \in Coordinates, e \in Coordinates, gs \in GameStates :
                      Begin(s, e, gs)
  \/ Seed
  \/ SeedWrite
  \/ Iterate
  \/ Exhausted

Spec == Init /\ [][Next]_vars

\* The searches followed to their end: from the two cells of the zero-cost
\* cycle of extra edges to every cell, with no requirement met and with all.
FairStarts == {<<0, 0>>, <<1, 0>>}
FairStates == {{}, Reqs}
NextFair ==
  \/ pc = "idle" /\ \E s \in FairStarts, e \in Coordinates, gs \in FairStates :
                      Begin(s, e, gs)
  \/ Seed
  \/ SeedWrite
  \/ Iterate
  \/ Exhausted
\* What tells the steps of the while loop apart: an entry is popped, the
\* heap is found empty.
Pops == pc = "loop" /\ queue # <<>> /\ taken' = Append(taken, queue[HeapTop(queue)])
Returns == pc = "loop" /\ queue = <<>> /\ pc' = "done"
\* a call of dijkstra that has begun runs on while it can: its loops are
\* suspended only in println!, for as long as the write to stdout blocks
SpecFair ==
  /\ Init /\ [][NextFair]_vars
  /\ WF_<<pc, next_teleport>>(Seed) /\ WF_pc(SeedWrite)
  /\ WF_taken(Pops) /\ WF_pc(Returns)

\* the whole of dijkstra as a function of its arguments and of the stdout
\* it prints to (out)
\* a call that returned a value, a call that panicked, and a call that is
\* asleep in println! for ever
Finished(value) == [outcome |-> "done", result |-> value]
Panicked == [outcome |-> "panic", result |-> None]
Asleep == [outcome |-> "asleep", result |-> None]
RECURSIVE SearchLoop(_, _, _, _)
SearchLoop(s, g, gs, end_index) ==
  IF s.panic THEN Panicked
  ELSE IF s.queue = <<>> THEN Finished(None)
  ELSE LET k == HeapTop(s.queue)
           top == s.queue[k]
           rest == RemoveAt(s.queue, k)
       IN  IF top.index = end_index
           THEN Finished(Some(Reconstruct(s.cache, top.index)))
           ELSE SearchLoop(RelaxNeighbours([s EXCEPT !.queue = rest],
                                           g, gs, top.index, UsedCost(top, s.cache)),
                           g, gs, end_index)
dijkstra(g, s, e, gs, out) ==
  IF GroupsDiffer(g, s, e) THEN Finished(None)
  ELSE LET seeded ==
             SeedTeleports(SeedState([NewCache EXCEPT ![index(s)].cost = U32(0)],
                                     HeapPush(<<>>, [cost |-> U32(0), index |-> index(s)]),
                                     out),
                           g.teleports, gs, 1)
       IN  IF seeded.asleep THEN Asleep
           ELSE SearchLoop(seeded, g, gs, index(e))

\* ------------------------------------------------------------------------
\* BucketRingBuffer: buckets indexed by cost modulo max_cost + 1.
RingSize(r) == Cardinality(DOMAIN r.buckets)
RingOffer(r, cost, i) ==
  [r EXCEPT !.buckets[Nat32(cost) % RingSize(r)] = Append(@, i)]
\* the costs the scan looks at, from the last extracted cost on
ScanCosts(r) == {c \in r.cursor .. (r.cursor + RingSize(r) - 1) :
                   r.buckets[c % RingSize(r)] # <<>>}
RingIsEmpty(r) == \A b \in DOMAIN r.buckets : r.buckets[b] = <<>>
\* take-minimum: a cell of the first bucket that is not empty
RingTake(r, newest_first) ==
  LET c == Min(ScanCosts(r))
      b == c % RingSize(r)
      cells == r.buckets[b]
  IN  [index |-> IF newest_first THEN cells[Len(cells)] ELSE Head(cells),
       ring |-> [buckets |-> [r.buckets EXCEPT ![b] =
                                IF newest_first THEN SubSeq(cells, 1, Len(cells) - 1)
                                ELSE Tail(cells)],
                 cursor |-> c]]
\* reset(): every bucket cleared
RingReset(r) == [buckets |-> [b \in DOMAIN r.buckets |-> <<>>], cursor |-> 0]

\* dijkstra2: the search of dijkstra on the frontier and the scratch vector
\* of its caller
Relax2(s, adj_index, new_cost, prev, edge) ==
  IF LtU32(new_cost, s.cache[adj_index].cost)
  THEN [cache |-> [s.cache EXCEPT ![adj_index] =
                     [cost |-> new_cost, prev |-> U32(prev), edge |-> edge]],
        queue |-> RingOffer(s.queue, new_cost, adj_index)]
  ELSE s

RECURSIVE RelaxDirections2(_, _, _, _, _)
RelaxDirections2(s, v, cur, cost, d) ==
  IF d > Len(DIRECTIONS) THEN s
  ELSE LET dir == DIRECTIONS[d]
           adj_index == Nat32(AdjIndex(cur, dir[2], dir[3]).value)
           s2 == IF HasFlag(v.flags, dir[1])
                 THEN Relax2(s, adj_index, AddU32(cost, U32(1)).value, cur, None)
                 ELSE s
       IN  RelaxDirections2(s2, v, cur, cost, d + 1)

RECURSIVE RelaxEdges2(_, _, _, _, _, _)
RelaxEdges2(s, edges, gs, cur, cost, k) ==
  IF k > Len(edges) THEN s
  ELSE LET edge == edges[k]
           s2 == IF AllMet(edge.requirements, gs)
                 THEN Relax2(s, index(edge.destination), AddU32(cost, edge.cost).value,
                             cur, Some(edge))
                 ELSE s
       IN  RelaxEdges2(s2, edges, gs, cur, cost, k + 1)

RelaxNeighbours2(s, g, gs, cur, cost) ==
  LET v == g.vertices[cur]
      s1 == RelaxDirections2(s, v, cur, cost, 1)
  IN  IF has_extra_edges(v)
      THEN RelaxEdges2(s1, g.edges[cur], gs, cur, cost, 1)
      ELSE s1

RECURSIVE SeedTeleports2(_, _, _, _)
SeedTeleports2(s, teleports, gs, k) ==
  IF k > Len(teleports) THEN s
  ELSE LET teleport == teleports[k]
           dest == index(teleport.destination)
           s2 == IF /\ AllMet(teleport.requirements, gs)
                    /\ LtU32(teleport.cost, s.cache[dest].cost)
                 THEN [cache |-> [s.cache EXCEPT ![dest].cost = teleport.cost,
                                                 ![dest].edge = Some(teleport)],
                       queue |-> RingOffer(s.queue, teleport.cost, dest)]
                 ELSE s
       IN  SeedTeleports2(s2, teleports, gs, k + 1)

\* ------------------------------------------------------------------------
\* handle_bench_request (src/webservice/src/main.rs)

\* nav_grid.iter_edges()
iter_edges(g) == AllEdges(g)
\* the ring sized by the cheapest edge
MinEdgeCost(g) == Min({Nat32(x.cost) : x \in iter_edges(g)})
\* line 65: nav_grid.iter_edges().map(|edge| edge.cost).max().unwrap()
MaxEdgeCost(g) == Max({Nat32(x.cost) : x \in iter_edges(g)})

\* the scratch vector left as the query wrote it
CacheKept(c) == c
\* lines 72-74: every entry of the scratch vector set to the default
CacheReset(c) == [i \in DOMAIN c |-> DefaultCacheState]

\* Coordinate::validate: the position lies within the extents of the world
validate(c) == InGrid(c[1], c[2])
\* the guard left out
NeverRejected(s, e) == FALSE
\* lines 61-63: a coordinate of the request is out of bounds
Rejected(s, e) == ~validate(s) \/ ~validate(e)

\* the requests the benchmark is run with: from three cells of the grid and
\* from a position east of it, to every cell and to a position north of it
BenchStarts == {from_index(0), from_index(1), from_index(N - 1), <<WIDTH, 0>>}
BenchEnds == Coordinates \cup {<<0, HEIGHT>>}

\* lines 60-67; the rejected request is printed first (line 62): println!
\* panics when the write to stdout fails, and the handler is asleep in it
\* while the write blocks
BenchBegin(s, e, gs, newest_first) ==
  /\ bpc = "idle"
  /\ start' = s
  /\ end' = e
  /\ game_state' = gs
  /\ lifo' = newest_first
  /\ IF Rejected(s, e)
     THEN \* Err(BadRequest): no frontier, no scratch vector, no search
          /\ println(stdout) # "blocks"
          /\ bpc' = IF println(stdout) = "written" THEN "bad_request" ELSE "panic"
          /\ stdout' = IF println(stdout) = "written" THEN Printed(stdout) ELSE stdout
          /\ UNCHANGED <<ring, cache>>
     ELSE IF iter_edges(nav_grid) = {}
     THEN \* max() of no edges is None and unwrap() panics
          /\ bpc' = "panic"
          /\ UNCHANGED <<ring, cache, stdout>>
     ELSE /\ bpc' = "call"
          /\ ring' = RingNew(MaxEdgeCost(nav_grid))
          /\ cache' = NewCache
          /\ UNCHANGED stdout
  /\ UNCHANGED <<nav_grid, overflow_checks, floodVars, peer, ppc, taken, next_teleport, pc, queue, result, iter, results>>

\* line 70: dijkstra2 is called; the group check and the start cell
D2Begin ==
  /\ bpc = "call"
  /\ IF GroupsDiffer(nav_grid, start, end)
     THEN /\ bpc' = "reset"
          /\ results' = Append(results, None)
          /\ UNCHANGED <<ring, cache>>
     ELSE /\ bpc' = "seed"
          /\ cache' = [cache EXCEPT ![index(start)].cost = U32(0)]
          /\ ring' = RingOffer(ring, U32(0), index(start))
          /\ UNCHANGED results
  /\ UNCHANGED <<nav_grid, overflow_checks, stdout, floodVars, peer, ppc, taken, next_teleport, pc, start, end, game_state, queue, result, lifo, iter>>

\* dijkstra2: the teleports
D2Seed ==
  /\ bpc = "seed"
  /\ LET s == SeedTeleports2([cache |-> cache, queue |-> ring],
                             nav_grid.teleports, game_state, 1)
     IN  /\ cache' = s.cache
         /\ ring' = s.queue
  /\ bpc' = "loop"
  /\ UNCHANGED <<nav_grid, overflow_checks, stdout, floodVars, peer, ppc, taken, next_teleport, pc, start, end, game_state, queue, result,
                 lifo, iter, results>>

\* dijkstra2: one iteration of the loop, the cost read from the scratch entry
D2Iterate ==
  /\ bpc = "loop"
  /\ ~RingIsEmpty(ring)
  /\ LET t == RingTake(ring, lifo)
     IN  IF t.index = index(end)
         THEN /\ results' = Append(results, Some(Reconstruct(cache, t.index)))
              /\ bpc' = "reset"
              /\ ring' = t.ring
              /\ UNCHANGED cache
         ELSE LET s == RelaxNeighbours2([cache |-> cache, queue |-> t.ring], nav_grid,
                                        game_state, t.index, cache[t.index].cost)
              IN  /\ cache' = s.cache
                  /\ ring' = s.queue
                  /\ UNCHANGED <<bpc, results>>
  /\ UNCHANGED <<nav_grid, overflow_checks, stdout, floodVars, peer, ppc, taken, next_teleport, pc, start, end, game_state, queue, result, lifo, iter>>

\* dijkstra2: the ring is empty, return None
D2Exhausted ==
  /\ bpc = "loop"
  /\ RingIsEmpty(ring)
  /\ bpc' = "reset"
  /\ results' = Append(results, None)
  /\ UNCHANGED <<nav_grid, overflow_checks, stdout, floodVars, peer, ppc, taken, next_teleport, pc, start, end, game_state, queue, cache, result,
                 ring, lifo, iter>>

\* lines 71-75: queue.reset(), the scratch vector reset, the next iteration
BenchReset ==
  /\ bpc = "reset"
  /\ ring' = RingReset(ring)
  /\ cache' = CacheReset(cache)
  /\ iter' = iter + 1
  /\ bpc' = IF iter + 1 < BenchIters THEN "call" ELSE "done"
  /\ UNCHANGED <<nav_grid, overflow_checks, stdout, floodVars, peer, ppc, taken, next_teleport, pc, start, end, game_state, queue, result,
                 lifo, results>>

\* handle_path_request, main.rs 45-52: a request out of bounds is printed
\* (line 48) and rejected; for one in bounds dijkstra is called
PathBegin(s, e, gs) ==
  /\ ppc = "idle" /\ pc = "idle"
  /\ IF Rejected(s, e)
     THEN /\ println(stdout) # "blocks"
          /\ ppc' = IF println(stdout) = "written" THEN "bad_request" ELSE "panic"
          /\ stdout' = IF println(stdout) = "written" THEN Printed(stdout) ELSE stdout
          /\ UNCHANGED searchVars
     ELSE /\ Call(s, e, gs)
          /\ ppc' = "call"
          /\ UNCHANGED stdout
  /\ UNCHANGED <<nav_grid, overflow_checks, peer, floodVars, bpc, ring, lifo, iter, results>>

\* main.rs 53-56: dijkstra has returned; the request is printed with its
\* measurements (line 54) and answered
PathRespond ==
  /\ ppc = "call" /\ pc = "done"
  /\ println(stdout) # "blocks"
  /\ ppc' = IF println(stdout) = "written" THEN "ok" ELSE "panic"
  /\ stdout' = IF println(stdout) = "written" THEN Printed(stdout) ELSE stdout
  /\ UNCHANGED <<nav_grid, overflow_checks, searchVars, peer, floodVars,
                 bpc, ring, lifo, iter, results>>

\* the web service with one request: to the benchmark, or for a path
NextBench ==
  \/ bpc = "idle" /\ ppc = "idle" /\
       \E s \in BenchStarts, e \in BenchEnds, gs \in GameStates, nf \in BOOLEAN :
          BenchBegin(s, e, gs, nf)
  \/ D2Begin
  \/ D2Seed
  \/ D2Iterate
  \/ D2Exhausted
  \/ BenchReset
  \/ bpc = "idle" /\ ppc = "idle" /\
       \E s \in BenchStarts, e \in BenchEnds, gs \in GameStates : PathBegin(s, e, gs)
  \/ Seed
  \/ SeedWrite
  \/ Iterate
  \/ Exhausted
  \/ PathRespond

\* a path request answered after the line of its one seeded teleport and the
\* line of the handler, one that panicked in the handler's println! after
\* dijkstra had returned, one asleep in it, and one rejected
PathAnswered ==
  /\ ppc = "ok" /\ pc = "done" /\ nav_grid = TeleGrid /\ result # None
  /\ index(start) = 1 /\ game_state = {1} /\ stdout = Printed(Printed(Terminal))
PathPanicked ==
  /\ ppc = "panic" /\ pc = "done" /\ result # None /\ stdout = DevFull
PathAsleep ==
  /\ ppc = "call" /\ pc = "done" /\ result # None /\ stdout = UnreadPipe
PathRejected ==
  /\ ppc = "bad_request" /\ pc = "idle" /\ stdout = Printed(Terminal)

\* the benchmark measures the build without overflow checks
InitBench ==
  \/ InitOn(BenchGrids, {FALSE}, {Terminal})
  \/ InitOn({OpenGrid}, {FALSE}, BrokenStdouts)
SpecBench == InitBench /\ [][NextBench]_vars

\* ------------------------------------------------------------------------
\* pathfinder::flood

\* the cell queued without the visited mark
FloodVisitUnmarked(s, adj_index) ==
  IF ~s.cache[adj_index]
  THEN [s EXCEPT !.queue = Append(s.queue, adj_index)]
  ELSE s
\* lines 121-125 and 130-134: queue the cell and mark it, unless marked
FloodVisit(s, adj_index) ==
  IF ~s.cache[adj_index]
  THEN [s EXCEPT !.queue = Append(s.queue, adj_index), !.cache[adj_index] = TRUE]
  ELSE s

\* lines 118-127, from direction d on
RECURSIVE FloodDirections(_, _, _, _)
FloodDirections(s, v, cur, d) ==
  IF d > Len(DIRECTIONS) \/ s.panic THEN s
  ELSE LET dir == DIRECTIONS[d]
           adj_index == AdjIndex(cur, dir[2], dir[3])
           s2 == IF HasFlag(v.flags, dir[1])
                 THEN IF Panics(adj_index.overflow) THEN [s EXCEPT !.panic = TRUE]
                      ELSE FloodVisit(s, Nat32(adj_index.value))
                 ELSE s
       IN  FloodDirections(s2, v, cur, d + 1)

\* the extra edges forgotten
FloodEdgesSkipped(s, edges, k) == s
\* lines 129-135, from the k-th edge on
RECURSIVE FloodEdges(_, _, _)
FloodEdges(s, edges, k) ==
  IF k > Len(edges) THEN s
  ELSE FloodEdges(FloodVisit(s, index(edges[k].destination)), edges, k + 1)

\* the answer of the callback ignored
FloodExpandAlways(s, g, cur, expand) ==
  LET v == g.vertices[cur]
      s1 == FloodDirections(s, v, cur, 1)
  IN  IF has_extra_edges(v) /\ ~s1.panic THEN FloodEdges(s1, g.edges[cur], 1) ELSE s1
\* lines 114-136: the body of the loop after the callback answered expand
FloodExpand(s, g, cur, expand) ==
  IF ~expand THEN s
  ELSE LET v == g.vertices[cur]
           s1 == FloodDirections(s, v, cur, 1)
       IN  IF has_extra_edges(v) /\ ~s1.panic THEN FloodEdges(s1, g.edges[cur], 1) ELSE s1

\* the callbacks given to flood, each by the set of cells it answers false
\* on: never, always, on one cell, on the column next to the wall, on the
\* odd cells
Callbacks ==
  {AlwaysTrue, AlwaysFalse, {1}, {WIDTH}, {N - 1},
   {i \in Indices : i % WIDTH = Mid}, {i \in Indices : i % 2 = 1}}
\* visit_vertex(index)
Answer(cb, i) == i \notin cb

\* lines 108-112
FloodBegin(s, cb) ==
  /\ \/ fpc = "idle"
     \/ /\ fpc = "done" /\ Len(runs) < FloodRuns
        /\ s = fstart /\ cb = visit_vertex /\ cb \in {AlwaysTrue, AlwaysFalse}
  /\ fpc' = "loop"
  /\ fstart' = s
  /\ visit_vertex' = cb
  /\ fqueue' = <<index(s)>>
  /\ fcache' = [NewVisited EXCEPT ![index(s)] = TRUE]
  /\ calls' = <<>>
  /\ UNCHANGED <<nav_grid, overflow_checks, stdout, benchVars, searchVars, peer, runs>>

\* lines 113-137: one iteration of the while loop. An overflow panic ends
\* the call mid-iteration, with the cells before it queued.
FloodStep ==
  /\ fpc = "loop"
  /\ fqueue # <<>>
  /\ LET cur == Head(fqueue)
         s == FloodExpand([queue |-> Tail(fqueue), cache |-> fcache, panic |-> FALSE],
                          nav_grid, cur, Answer(visit_vertex, cur))
     IN  /\ calls' = Append(calls, cur)
         /\ fqueue' = s.queue
         /\ fcache' = s.cache
         /\ fpc' = IF s.panic THEN "panic" ELSE fpc
  /\ UNCHANGED <<nav_grid, overflow_checks, stdout, benchVars, searchVars, peer, fstart, visit_vertex, runs>>

\* lines 113, 138: the queue is empty, flood returns
FloodReturn ==
  /\ fpc = "loop"
  /\ fqueue = <<>>
  /\ fpc' = "done"
  /\ runs' = Append(runs, SeqToSet(calls))
  /\ UNCHANGED <<nav_grid, overflow_checks, stdout, benchVars, searchVars, peer, fstart, fqueue, fcache, visit_vertex, calls>>

NextFlood ==
  \/ fpc \in {"idle", "done"} /\ \E s \in Coordinates, cb \in Callbacks : FloodBegin(s, cb)
  \/ FloodStep
  \/ FloodReturn

\* flood prints nothing
InitFlood == InitOn(Grids, Builds, {Terminal})
SpecFlood == InitFlood /\ [][NextFlood]_vars

\* What tells the steps of a running call apart: a cell is dequeued and passed
\* to the callback, the queue is found empty.
FloodPops == fpc = "loop" /\ fqueue # <<>> /\ calls' = Append(calls, Head(fqueue))
FloodReturns == fpc = "loop" /\ fqueue = <<>> /\ fpc' = "done"
\* the loop of flood is never suspended
SpecFloodFair == SpecFlood /\ WF_calls(FloodPops) /\ WF_fpc(FloodReturns)

\* the whole of flood as a function of its arguments: how the call ends, and
\* the cells the callback is called with, in order
RECURSIVE FloodLoop(_, _, _, _)
FloodLoop(s, g, cb, called) ==
  IF s.panic THEN [outcome |-> "panic", calls |-> called]
  ELSE IF s.queue = <<>> THEN [outcome |-> "done", calls |-> called]
  ELSE LET cur == Head(s.queue)
       IN  FloodLoop(FloodExpand([s EXCEPT !.queue = Tail(s.queue)], g, cur, Answer(cb, cur)),
                     g, cb, Append(called, cur))
flood(g, s, cb) ==
  FloodLoop([queue |-> <<index(s)>>, cache |-> [NewVisited EXCEPT ![index(s)] = TRUE],
             panic |-> FALSE],
            g, cb, <<>>)

\* ------------------------------------------------------------------------
\* Calls running at the same time. Every call borrows the same &NavGrid and
\* builds its own heap and cache (lib.rs 47-48, 109-110), so a second call of
\* dijkstra steps through the same stages on its own record.

\* the cache the second call works in is the first call's
SharedScratch == cache
\* line 48: the cache is a local of the call
PeerScratch == peer.cache

\* lines 41-50, second call
PeerBegin(s, e, gs) ==
  /\ peer.pc = "idle"
  /\ peer' = IF GroupsDiffer(nav_grid, s, e)
             THEN [IdleQuery EXCEPT !.pc = "done", !.start = s, !.end = e,
                                    !.game_state = gs]
             ELSE [pc |-> "seed", start |-> s, end |-> e, game_state |-> gs,
                   queue |-> HeapPush(<<>>, [cost |-> U32(0), index |-> index(s)]),
                   cache |-> [NewCache EXCEPT ![index(s)].cost = U32(0)],
                   result |-> None, next_teleport |-> 1]
  /\ UNCHANGED <<nav_grid, overflow_checks, stdout, searchVars, floodVars, benchVars>>

\* lines 51-55, second call
PeerSeed ==
  /\ peer.pc = "seed"
  /\ IF peer.next_teleport > Len(nav_grid.teleports)
     THEN /\ peer' = [peer EXCEPT !.pc = "loop"]
          /\ UNCHANGED stdout
     ELSE IF TeleportPasses(PeerScratch, nav_grid.teleports[peer.next_teleport],
                            peer.game_state)
     THEN LET s == PrintTeleport(SeedState(PeerScratch, peer.queue, stdout))
          IN  /\ ~s.asleep
              /\ stdout' = s.stdout
              /\ peer' = [peer EXCEPT !.pc = IF s.panic THEN "panic" ELSE "write"]
     ELSE /\ peer' = [peer EXCEPT !.next_teleport = @ + 1,
                                  !.pc = AfterTeleport(peer.next_teleport)]
          /\ UNCHANGED stdout
  /\ UNCHANGED <<nav_grid, overflow_checks, searchVars, floodVars, benchVars>>

\* lines 56-60, second call
PeerSeedWrite ==
  /\ peer.pc = "write"
  /\ LET s == WriteTeleport(SeedState(PeerScratch, peer.queue, stdout),
                            nav_grid.teleports[peer.next_teleport])
     IN  peer' = [peer EXCEPT !.cache = s.cache, !.queue = s.queue,
                              !.next_teleport = @ + 1,
                              !.pc = AfterTeleport(peer.next_teleport)]
  /\ UNCHANGED <<nav_grid, overflow_checks, stdout, searchVars, floodVars, benchVars>>

\* lines 63-104, second call
PeerIterate ==
  /\ peer.pc = "loop"
  /\ peer.queue # <<>>
  /\ LET k == HeapTop(peer.queue)
         top == peer.queue[k]
         rest == RemoveAt(peer.queue, k)
     IN  IF top.index = index(peer.end)
         THEN peer' = [peer EXCEPT !.pc = "done", !.queue = rest,
                                   !.result = Some(Reconstruct(PeerScratch, top.index))]
         ELSE LET s == RelaxNeighbours([cache |-> PeerScratch, queue |-> rest, panic |-> FALSE],
                                       nav_grid, peer.game_state, top.index,
                                       UsedCost(top, PeerScratch))
              IN  peer' = [peer EXCEPT !.cache = s.cache, !.queue = s.queue,
                                       !.pc = IF s.panic THEN "panic" ELSE @]
  /\ UNCHANGED <<nav_grid, overflow_checks, stdout, searchVars, floodVars, benchVars>>

\* lines 63, 105, second call
PeerExhausted ==
  /\ peer.pc = "loop"
  /\ peer.queue = <<>>
  /\ peer' = [peer EXCEPT !.pc = "done", !.result = None]
  /\ UNCHANGED <<nav_grid, overflow_checks, stdout, searchVars, floodVars, benchVars>>

\* the requests that arrive together: corner to corner with every
\* requirement met, the way back with none met, and a short one
ConcQueries ==
  {<<<<0, 0>>, <<WIDTH - 1, HEIGHT - 1>>, Reqs>>,
   <<<<WIDTH - 1, HEIGHT - 1>>, <<0, 0>>, {}>>,
   <<<<1, 0>>, <<0, 1>>, {1}>>}
\* the floods that run beside them, once: one that is refused its first
\* cell, and one that is let past its first cell only
ConcCallbacks == {AlwaysFalse, Indices \ {0}}

NextConcurrent ==
  \/ \E q \in ConcQueries : Begin(q[1], q[2], q[3])
  \/ Seed
  \/ SeedWrite
  \/ Iterate
  \/ Exhausted
  \/ \E q \in ConcQueries : PeerBegin(q[1], q[2], q[3])
  \/ PeerSeed
  \/ PeerSeedWrite
  \/ PeerIterate
  \/ PeerExhausted
  \/ fpc = "idle" /\ \E cb \in ConcCallbacks : FloodBegin(<<0, 0>>, cb)
  \/ FloodStep
  \/ FloodReturn

SpecConcurrent == Init /\ [][NextConcurrent]_vars

\* ------------------------------------------------------------------------
\* Reference shortest paths, computed independently of the search: the arcs
\* of the graph from the coordinates, then Bellman-Ford rounds.
MoveArcs(g) ==
  {<<p[1], index(<<from_index(p[1])[1] + DIRECTIONS[p[2]][2],
                   from_index(p[1])[2] + DIRECTIONS[p[2]][3]>>), 1>> :
     p \in {q \in Indices \X (1 .. Len(DIRECTIONS)) :
              HasFlag(g.vertices[q[1]].flags, DIRECTIONS[q[2]][1])}}
EdgeArcs(g, gs) ==
  UNION {{<<i, index(g.edges[i][k].destination), Nat32(g.edges[i][k].cost)>> :
            k \in {k \in 1 .. Len(g.edges[i]) : AllMet(g.edges[i][k].requirements, gs)}} :
         i \in DOMAIN g.edges}
Arcs(g, gs) == MoveArcs(g) \cup EdgeArcs(g, gs)
SatisfiedTeleports(g, gs) == {t \in SeqToSet(g.teleports) : AllMet(t.requirements, gs)}


\* A labelling is a set of <<cell, cost>> pairs, at most one per cell.
\* cost 0 at the start, the teleport's cost at a satisfied teleport's destination
Labelled(L) == {p[1] : p \in L}
Label(L, i) == Min({p[2] : p \in {q \in L : q[1] = i}})
SourceOffers(g, gs, s) ==
  {<<s, 0>>} \cup {<<index(t.destination), Nat32(t.cost)>> : t \in SatisfiedTeleports(g, gs)}
Cheapest(offers) == {<<i, Label(offers, i)>> : i \in Labelled(offers)}

\* one round: every arc out of a labelled cell offers a cost to its head
ArcOffers(L, arcs) ==
  {<<a[2], Label(L, a[1]) + a[3]>> : a \in {x \in arcs : x[1] \in Labelled(L)}}

RECURSIVE BellmanFord(_, _, _)
BellmanFord(L, arcs, rounds) ==
  LET L2 == Cheapest(L \cup ArcOffers(L, arcs))
  IN  IF rounds = 0 \/ L2 = L THEN L ELSE BellmanFord(L2, arcs, rounds - 1)

RefDist(g, gs, s) == BellmanFord(Cheapest(SourceOffers(g, gs, s)), Arcs(g, gs), N)
Reachable(g, gs, s, e) == e \in Labelled(RefDist(g, gs, s))
MinCost(g, gs, s, e) == Label(RefDist(g, gs, s), e)

\* cost of a returned route: 1 per movement Step, the edge's cost per edge Step
EdgeOfDefinition(g, d) == CHOOSE x \in AllEdges(g) : x.definition = d
StepCost(g, step) ==
  IF step.kind = "Edge" THEN Nat32(EdgeOfDefinition(g, step.definition).cost) ELSE 1
RECURSIVE RouteCost(_, _)
RouteCost(g, route) ==
  IF route = <<>> THEN 0 ELSE StepCost(g, Head(route)) + RouteCost(g, Tail(route))
IsMove(step) == step.kind = "Step"
IsEdgeUse(step) == step.kind = "Edge"
EdgeSteps(route) == {k \in 1 .. Len(route) : IsEdgeUse(route[k])}
\* the route opens with the movement Step that names the start cell
OpensAtStart(route, s) ==
  route # <<>> /\ IsMove(route[1]) /\ route[1].coordinate = s
\* cost of the moves of a route: the opening Step of the start cell is no move
TravelCost(g, route, s) ==
  RouteCost(g, route) - (IF OpensAtStart(route, s) THEN 1 ELSE 0)

Done == pc = "done"
GroupId(c) == nav_grid.vertices[index(c)].group
SameGroup == GroupId(start) = GroupId(end)
EndReachable == Reachable(nav_grid, game_state, index(start), index(end))

\* C1 (as stated): whenever end is reachable, the returned route's total cost,
\* 1 per movement Step and the edge's cost per edge-use Step, is the minimum
\* cost of the reference shortest-path computation.
C1_Original ==
  (Done /\ EndReachable) =>
     /\ result # None
     /\ RouteCost(nav_grid, result[1]) =
          MinCost(nav_grid, game_state, index(start), index(end))

\* C1 (amended): whenever start and end have the same group id and end is
\* reachable, the route's cost without the opening Step of the start cell is
\* the minimum cost of the reference shortest-path computation.
C1_MinimumCost ==
  []((Done /\ SameGroup) =>
       LET dist == RefDist(nav_grid, game_state, index(start))
       IN  index(end) \in Labelled(dist) =>
             /\ result # None
             /\ TravelCost(nav_grid, result[1], start) = Label(dist, index(end)))

\* a route that uses a zero-cost edge and one that opens with a teleport
C1_Witness ==
  /\ Done /\ nav_grid = TeleGrid /\ result # None
  /\ index(start) = 1 /\ index(end) = N - 1 /\ game_state = {1}
  /\ TravelCost(nav_grid, result[1], start) = 1
  /\ \E k \in 1 .. Len(result[1]) : result[1][k] = StepEdge("free")

\* C2: when the group ids of start and end differ, search returns None and
\* neither the scratch store nor the frontier has been touched.
C2_GroupReject ==
  (Done /\ GroupId(start) # GroupId(end)) =>
     /\ result = None
     /\ queue = <<>>
     /\ cache = NewCache

\* the bridge edge from cell 0 and the teleport both lead to the end
C2_Witness ==
  /\ Done /\ nav_grid = IslandsGrid
  /\ index(start) = 0 /\ index(end) = N - 1
  /\ EndReachable
  /\ result = None

Manhattan(a, b) ==
  (IF a[1] < b[1] THEN b[1] - a[1] ELSE a[1] - b[1])
  + (IF a[2] < b[2] THEN b[2] - a[2] ELSE a[2] - b[2])

\* C3 (as stated): on the open four-direction grid the route has as many
\* Steps as a shortest path has moves, none from a cell to itself.
C3_Original ==
  (Done /\ nav_grid = OpenGrid) =>
     /\ result # None
     /\ Len(result[1]) = Manhattan(start, end)

\* C3 (amended): on the open four-direction grid the route opens with the
\* movement Step of the start cell and has one Step more than a shortest path
\* has moves; all its Steps are movement Steps and it ends at the end cell.
C3_OpenGridRoute ==
  (Done /\ nav_grid = OpenGrid) =>
     /\ result # None
     /\ Len(result[1]) = Manhattan(start, end) + 1
     /\ OpensAtStart(result[1], start)
     /\ EdgeSteps(result[1]) = {}
     /\ result[1][Len(result[1])] = StepStep(end)
     /\ TravelCost(nav_grid, result[1], start) = Manhattan(start, end)

\* corner to corner: one Step per cell on the way, the start cell included
C3_Witness ==
  /\ Done /\ nav_grid = OpenGrid /\ result # None
  /\ index(start) = 0 /\ index(end) = N - 1
  /\ Len(result[1]) = WIDTH + HEIGHT - 1

\* C4 (as stated): on the grid whose halves are joined only by the gate
\* edge, a search between a cell of each half returns None when the gate's
\* requirement is not met and, when it is met, a route with exactly one
\* edge-use Step, the gate's; and no route on any grid uses an edge whose
\* requirements are not met.
C4_Original ==
  /\ (Done /\ nav_grid = HalvesGrid /\ Side(start[1]) # Side(end[1])) =>
        IF ~AllMet(<<1>>, game_state) THEN result = None
        ELSE /\ result # None
             /\ Cardinality(EdgeSteps(result[1])) = 1
             /\ \A k \in EdgeSteps(result[1]) : result[1][k] = StepEdge("gate")
  /\ (Done /\ result # None) =>
        \A k \in EdgeSteps(result[1]) :
          AllMet(EdgeOfDefinition(nav_grid, result[1][k].definition).requirements,
                 game_state)

\* C4: on the grid whose halves are joined only by the gate edge, a search
\* between a cell of each half returns None when the gate's requirement is
\* not met; when it is met, the search from the half the gate leaves returns
\* a route with exactly one edge-use Step, the gate's, and the search from
\* the half the gate leads to returns None; and no route on any grid uses an
\* edge whose requirements are not met.
C4_GatedEdge ==
  /\ (Done /\ nav_grid = HalvesGrid /\ Side(start[1]) # Side(end[1])) =>
        IF ~AllMet(<<1>>, game_state) THEN result = None
        ELSE IF Side(start[1]) = 0
             THEN /\ result # None
                  /\ Cardinality(EdgeSteps(result[1])) = 1
                  /\ \A k \in EdgeSteps(result[1]) : result[1][k] = StepEdge("gate")
             ELSE result = None
  /\ (Done /\ result # None) =>
        \A k \in EdgeSteps(result[1]) :
          AllMet(EdgeOfDefinition(nav_grid, result[1][k].definition).requirements,
                 game_state)

C4_Witness ==
  /\ Done /\ nav_grid = HalvesGrid
  /\ index(start) = 0 /\ index(end) = N - 1
  /\ 1 \in game_state
  /\ result # None
  /\ \E k \in 1 .. Len(result[1]) : result[1][k] = StepEdge("gate")

\* the way back with the requirement met: the gate leads out of the left
\* half only, and the search from the right half empties its heap
C4_WitnessBack ==
  /\ Done /\ nav_grid = HalvesGrid
  /\ index(start) = N - 1 /\ index(end) = 0
  /\ 1 \in game_state
  /\ result = None /\ queue = <<>> /\ taken # <<>>

C4_WitnessRefused ==
  /\ Done /\ nav_grid = HalvesGrid
  /\ index(start) = 0 /\ index(end) = N - 1
  /\ 1 \notin game_state
  /\ result = None

\* ------------------------------------------------------------------------
\* flood

NoDuplicates(q) == \A j, k \in 1 .. Len(q) : q[j] = q[k] => j = k
\* every cell queued so far in this call: the dequeued ones, then the queue
Enqueued == calls \o fqueue

\* C6: in flood no cell is passed to the callback twice, no cell is queued
\* twice, and every queued cell is marked visited.
C6_VisitedOnce ==
  /\ NoDuplicates(calls)
  /\ NoDuplicates(Enqueued)
  /\ \A k \in 1 .. Len(Enqueued) : fcache[Enqueued[k]]

\* every cell has been processed although cell 0 has a self-loop, an edge
\* back from cell 1 and several neighbours that reach it again
C6_Witness ==
  /\ fpc = "done" /\ nav_grid = TeleGrid /\ index(fstart) = 0
  /\ visit_vertex = AlwaysTrue
  /\ Len(calls) = N

\* C7: with a callback that always answers false, flood calls it once, with
\* the start cell, and queues no other cell.
C7_AlwaysFalse ==
  (visit_vertex = AlwaysFalse /\ fpc # "idle") =>
     /\ Enqueued = <<index(fstart)>>
     /\ fpc = "done" => calls = <<index(fstart)>>

C7_Witness ==
  /\ visit_vertex = AlwaysFalse /\ fpc = "done"
  /\ nav_grid = OpenGrid /\ index(fstart) = WIDTH + 1
  /\ calls = <<index(fstart)>>

\* the cells reachable by the moves of each cell's mask and by every extra
\* edge, whatever its requirements and cost
RECURSIVE Closure(_, _)
Closure(S, arcs) ==
  LET S2 == S \cup {a[2] : a \in {x \in arcs : x[1] \in S}}
  IN  IF S2 = S THEN S ELSE Closure(S2, arcs)
FloodReach(g, s) == Closure({s}, MoveArcs(g) \cup EdgeArcs(g, Reqs))

\* C8: with a callback that always answers true, flood calls it on exactly
\* the cells reachable from start, and a second such call from the same
\* start visits the same set.
C8_AlwaysTrue ==
  (visit_vertex = AlwaysTrue /\ fpc = "done") =>
     /\ SeqToSet(calls) = FloodReach(nav_grid, index(fstart))
     /\ \A k \in 1 .. Len(runs) : runs[k] = FloodReach(nav_grid, index(fstart))

\* the right half is reached only through the gate, whose requirement flood
\* does not look at; both calls have returned
C8_Witness ==
  /\ visit_vertex = AlwaysTrue /\ fpc = "done"
  /\ nav_grid = HalvesGrid /\ index(fstart) = 0
  /\ Len(runs) = FloodRuns
  /\ SeqToSet(calls) = Indices

\* C9: flood terminates, after at most one dequeue per cell of the grid.
C9_Terminates ==
  /\ [](Len(calls) <= N)
  /\ (fpc = "loop") ~> (fpc = "done")
\* what is left of C9: a call of flood ends, after at most one dequeue per
\* cell; in a build without overflow checks it ends by returning
C9_EndsOrPanics ==
  /\ [](Len(calls) <= N)
  /\ (fpc = "loop") ~> (fpc = "done" \/ (overflow_checks /\ fpc = "panic"))
\* a call of flood that panicked on the move south out of the second cell it
\* dequeued, with cells left in its queue
C9_Panic ==
  /\ fpc = "panic" /\ nav_grid = OpenGrid /\ index(fstart) = 0
  /\ visit_vertex = AlwaysTrue /\ calls = <<0, WIDTH>> /\ fqueue # <<>>

\* a call that dequeued every cell of the grid although the callback
\* answered false on the way
C9_Witness ==
  /\ fpc = "done" /\ visit_vertex = {1}
  /\ nav_grid = OpenGrid /\ index(fstart) = 0
  /\ Len(calls) = N

\* ------------------------------------------------------------------------
\* the benchmark loop and the bucket ring

\* the configured bound of the ring
RingBound == RingSize(ring) - 1
CostsWithinBound == \A x \in AllEdges(nav_grid) : Nat32(x.cost) <= RingBound
Returned == bpc \in {"reset", "done"} /\ results # <<>>
Latest == results[Len(results)]
\* on a stdout that takes every line
Reference == dijkstra(nav_grid, start, end, game_state, Terminal).result

\* C5 (as stated): when every edge and teleport cost is at most the ring's
\* bound, the search on the bucket ring returns None exactly when the search
\* on the binary heap does, and otherwise a route of the same total cost.
C5_Original ==
  (Returned /\ CostsWithinBound) =>
     /\ (Latest = None) <=> (Reference = None)
     /\ (Latest # None /\ Reference # None) =>
           TravelCost(nav_grid, Latest[1], start) = TravelCost(nav_grid, Reference[1], start)

\* C5 (restricted): the same, when moreover the ring's bound is at least
\* the cost 1 of a move.
C5_SameCost ==
  (Returned /\ CostsWithinBound /\ RingBound >= 1) =>
     /\ (Latest = None) <=> (Reference = None)
     /\ (Latest # None /\ Reference # None) =>
           TravelCost(nav_grid, Latest[1], start) = TravelCost(nav_grid, Reference[1], start)

\* a route over the zero-cost edge cycle, found with stale ring entries left
C5_Witness ==
  /\ Returned /\ nav_grid = TeleGrid /\ lifo
  /\ index(start) = 1 /\ index(end) = N - 1 /\ game_state = {1}
  /\ Latest # None
  /\ TravelCost(nav_grid, Latest[1], start) = 1
  /\ ~RingIsEmpty(ring)

\* C10: every query of the loop starts on a scratch vector of default
\* entries and an empty ring, and returns what the first query, run on the
\* freshly built scratch state, returned.
C10_FreshScratch ==
  /\ bpc = "call" => (cache = NewCache /\ RingIsEmpty(ring) /\ ring.cursor = 0)
  /\ \A k \in 1 .. Len(results) : results[k] = results[1]

\* the last query of the loop found the route the first one found
C10_Witness ==
  /\ bpc = "done" /\ Len(results) = BenchIters
  /\ nav_grid = HalvesGrid /\ index(start) = 0 /\ index(end) = N - 1
  /\ results[Len(results)] # None
  /\ results[Len(results)] = results[1]

\* lines 66-74: the last cell the reconstruction loop visits from index i,
\* the one whose predecessor is u32::MAX
RECURSIVE ChainEnd(_, _)
ChainEnd(c, i) == IF c[i].prev = U32_MAX THEN i ELSE ChainEnd(c, Nat32(c[i].prev))
\* the teleports whose requirements the query meets and that lead to cell i
TeleportsTo(i) ==
  {t \in SeqToSet(nav_grid.teleports) :
     AllMet(t.requirements, game_state) /\ index(t.destination) = i}

\* those of them the teleport loop has looked at
SeenTeleportsTo(i) ==
  {t \in TeleportsTo(i) :
     \E k \in 1 .. next_teleport - 1 : nav_grid.teleports[k] = t}

\* the Steps of a route that use a teleport, and the cells whose scratch
\* entry names a teleport as the edge used
IsTeleportStep(step) ==
  IsEdgeUse(step) /\ step.definition \in {t.definition : t \in SeqToSet(nav_grid.teleports)}
TeleportSteps(route) == {k \in 1 .. Len(route) : IsTeleportStep(route[k])}
TeleportCells(c) ==
  {i \in Indices : c[i].edge # None /\ c[i].edge[1] \in SeqToSet(nav_grid.teleports)}

\* The heap is kept as the sequence of its entries in the order they were
\* pushed, so the position of an entry is its insertion sequence number.
LowestCost(q) == CHOOSE c \in {q[k].cost : k \in 1 .. Len(q)} :
                   \A k \in 1 .. Len(q) : LeU32(c, q[k].cost)
\* the entry of lowest cost pushed earliest
EarliestLowest(q) ==
  q[Min({k \in 1 .. Len(q) : q[k].cost = LowestCost(q)})]
\* the entry of lowest cost with the greatest cell index
GreatestIndexLowest(q) ==
  CHOOSE x \in SeqToSet(q) :
    /\ x.cost = LowestCost(q)
    /\ \A y \in SeqToSet(q) : y.cost = x.cost => y.index <= x.index
Last(seq) == seq[Len(seq)]
\* a step of the loop that pops an entry
Extracts == pc = "loop" /\ queue # <<>> /\ taken' # taken

\* nav_grid.edges.get_vec(&index): the extra edges out of a cell
EdgesOut(g, i) == IF i \in DOMAIN g.edges THEN SeqToSet(g.edges[i]) ELSE {}
\* the cells whose scratch entry a step writes, and the entries it pushes
Written == {i \in Indices : cache'[i] # cache[i]}
Pushed == SeqToSet(queue') \ SeqToSet(queue)
\* the entry of cell i was written by a relaxation out of cell from: a move
\* of cost 1, or one of the extra edges of from that lead to i
WrittenFrom(entry, i, from, base) ==
  /\ entry.prev = U32(from)
  /\ \/ entry.edge = None /\ entry.cost = AddU32(base, U32(1)).value
     \/ \E e \in EdgesOut(nav_grid, from) :
          /\ entry.edge = Some(e)
          /\ index(e.destination) = i
          /\ entry.cost = AddU32(base, e.cost).value

\* the stdout the process was started on: the one of this state before any
\* line was written to it
InitialStdout == [stdout EXCEPT !.lines = 0]
\* a stdout that does with the lines of one call what this one did: for a
\* call that ends in the teleport loop it has room for the teleports the
\* call seeded and fails after them, and for any other it takes every line
OwnStdout(position, q) ==
  IF position = "seed"
  THEN [lines |-> 0, room |-> Len(q) - 1, after |-> "fails"]
  ELSE Terminal

\* C11: search and flood never change the grid, and however the steps of
\* two searches and a flood on the same grid interleave, each with its own
\* heap or queue and its own cache, every one of them ends with the result
\* it gives when run alone in the same process: on the same grid, with the
\* same arguments, on the stdout the process was started on.
C11_Isolation ==
  /\ [][nav_grid' = nav_grid]_vars
  \* the step that ends a call leaves the result of the call run alone
  /\ [][(pc' # pc /\ pc' \in {"done", "panic"}) =>
           [outcome |-> pc', result |-> result']
             = dijkstra(nav_grid, start', end', game_state', InitialStdout)]_vars
  /\ [][(peer'.pc # peer.pc /\ peer'.pc \in {"done", "panic"}) =>
           [outcome |-> peer'.pc, result |-> peer'.result]
             = dijkstra(nav_grid, peer'.start, peer'.end, peer'.game_state,
                        InitialStdout)]_vars
  /\ [][(fpc' # fpc /\ fpc' \in {"done", "panic"}) =>
           [outcome |-> fpc', calls |-> calls']
             = flood(nav_grid, fstart', visit_vertex')]_vars
  \* and no step of another call changes it afterwards
  /\ [][(pc \in {"done", "panic"}) =>
           (UNCHANGED <<pc, start, end, game_state, result>>)]_vars
  /\ [][(peer.pc \in {"done", "panic"}) => peer' = peer]_vars
  /\ [][(fpc \in {"done", "panic"} /\ fpc' = fpc) =>
           (UNCHANGED <<fstart, visit_vertex, calls>>)]_vars
\* what is left of C11: the grid is never changed, a flood ends as it does
\* run alone, and a search ends as it does run alone on a stdout that does
\* with its lines what the shared stdout did; the heap and the cache of a
\* call are out of reach of the others, stdout is not
C11_OwnLines ==
  /\ [][nav_grid' = nav_grid]_vars
  /\ [][(pc' # pc /\ pc' \in {"done", "panic"}) =>
           [outcome |-> pc', result |-> result']
             = dijkstra(nav_grid, start', end', game_state',
                        OwnStdout(pc, queue))]_vars
  /\ [][(peer'.pc # peer.pc /\ peer'.pc \in {"done", "panic"}) =>
           [outcome |-> peer'.pc, result |-> peer'.result]
             = dijkstra(nav_grid, peer'.start, peer'.end, peer'.game_state,
                        OwnStdout(peer.pc, peer.queue))]_vars
  /\ [][(fpc' # fpc /\ fpc' \in {"done", "panic"}) =>
           [outcome |-> fpc', calls |-> calls']
             = flood(nav_grid, fstart', visit_vertex')]_vars
  /\ [][(pc \in {"done", "panic"}) =>
           (UNCHANGED <<pc, start, end, game_state, result>>)]_vars
  /\ [][(peer.pc \in {"done", "panic"}) => peer' = peer]_vars
  /\ [][(fpc \in {"done", "panic"} /\ fpc' = fpc) =>
           (UNCHANGED <<fstart, visit_vertex, calls>>)]_vars
\* a call held between its first println! and line 56 while the other call
\* ran from beginning to end: two lines on stdout, the one teleport of the
\* other call and the first of this one, which is in neither cache nor heap
C11_HeldAfterPrintln ==
  /\ nav_grid = TeleGrid /\ ~overflow_checks
  /\ stdout = Printed(Printed(Terminal))
  /\ pc = "write" /\ next_teleport = 1
  /\ index(start) = 0 /\ index(end) = N - 1 /\ game_state = Reqs
  /\ cache[N - 1] = DefaultCacheState /\ Len(queue) = 1
  /\ peer.pc = "done" /\ peer.start = <<1, 0>> /\ peer.end = <<0, 1>>
  /\ peer.game_state = {1}
  /\ peer.result = Some(<<StepStep(<<1, 0>>), StepStep(<<0, 1>>)>>)
C11_PeerHeldAfterPrintln ==
  /\ nav_grid = TeleGrid /\ overflow_checks
  /\ stdout = Printed(Printed(Terminal))
  /\ peer.pc = "write" /\ peer.next_teleport = 1
  /\ index(peer.start) = 0 /\ index(peer.end) = N - 1 /\ peer.game_state = Reqs
  /\ peer.cache[N - 1] = DefaultCacheState /\ Len(peer.queue) = 1
  /\ pc = "panic" /\ start = <<1, 0>> /\ end = <<0, 1>> /\ game_state = {1}

\* two calls with the same arguments on a stdout with room for one line: the
\* first seeded its teleport and went on, the second panicked in println! at
\* the same teleport, where alone it returns a route
C11_Interference ==
  /\ nav_grid = TeleGrid /\ ~overflow_checks
  /\ stdout = Printed(HeadOne)
  /\ start = <<1, 0>> /\ end = <<0, 1>> /\ game_state = {1}
  /\ pc = "done" /\ result # None
  /\ peer.start = start /\ peer.end = end /\ peer.game_state = game_state
  /\ peer.pc = "panic" /\ peer.next_teleport = 1
  /\ dijkstra(nav_grid, start, end, game_state, HeadOne) = Finished(result)

\* the first search has returned a route while the second, on another
\* request, is in the middle of its loop and the flood is under way
C11_Witness ==
  /\ nav_grid.name = "tele"
  /\ pc = "done" /\ result # None /\ Len(taken) > 1
  /\ peer.pc = "loop" /\ peer.queue # <<>> /\ peer.start # start
  /\ \E i \in Indices : i # index(peer.start) /\ LtU32(peer.cache[i].cost, U32_MAX)
  /\ fpc = "loop"

\* C12 (as stated): whenever search returns a route, on a grid with or
\* without teleports, the predecessor chain followed backward from end
\* reaches the no-predecessor sentinel exactly at the start cell.
C12_Original ==
  (Done /\ result # None) => ChainEnd(cache, index(end)) = index(start)

\* C12 (amended): whenever search returns a route, the predecessor chain
\* followed backward from end reaches the sentinel either at the start cell,
\* whose Step then opens the route, or at the destination of a teleport
\* whose requirements are met, whose Step then opens the route; on a grid
\* without teleports it reaches it at the start cell.
C12_ChainEnd ==
  (Done /\ result # None) =>
     LET last == ChainEnd(cache, index(end))
         route == result[1]
     IN  /\ \/ /\ last = index(start)
               /\ cache[last].edge = None
               /\ route[1] = StepStep(start)
            \/ \E t \in TeleportsTo(last) :
                  /\ cache[last].edge = Some(t)
                  /\ route[1] = StepEdge(t.definition)
         /\ nav_grid.teleports = <<>> => last = index(start)

\* a route that opens with the free teleport and walks one cell on: the
\* chain ends at the teleport's destination, not at the start cell
C12_Witness ==
  /\ Done /\ nav_grid = TeleGrid /\ result # None
  /\ start = <<0, HEIGHT - 1>> /\ index(end) = WIDTH - 2 /\ game_state = {2}
  /\ result[1] = <<StepEdge("tele_zero"), StepStep(end)>>
  /\ ChainEnd(cache, index(end)) = WIDTH - 1

\* C13: a teleport is an option at the very start only. No scratch entry
\* names a teleport before the teleport loop, which looks at every teleport
\* once and is over before the first extraction, and none comes to name one
\* after it; an entry that names a teleport belongs to its destination,
\* which is not the start cell, the teleport's requirements are all met, the
\* entry's cost is the teleport's, the cheapest of the met teleports to that
\* cell the loop has looked at, and it has no predecessor; so a returned
\* route has at most one teleport Step, and that one is its first Step.
C13_TeleportFirst ==
  /\ [][pc # "write" => \A i \in TeleportCells(cache') : cache'[i] = cache[i]]_vars
  /\ [][(next_teleport' # next_teleport) =>
           (pc \in {"seed", "write"} /\ next_teleport' = next_teleport + 1)]_vars
  /\ [](/\ pc \in {"seed", "write"} => taken = <<>>
        /\ (pc \in {"seed", "write"} /\ next_teleport = 1) => TeleportCells(cache) = {}
        /\ pc = "loop" => next_teleport = Len(nav_grid.teleports) + 1
        /\ \A i \in TeleportCells(cache) :
             LET t == cache[i].edge[1]
             IN  /\ t \in SeenTeleportsTo(i)
                 /\ i # index(start)
                 /\ cache[i].cost = t.cost
                 /\ \A u \in SeenTeleportsTo(i) : LeU32(t.cost, u.cost)
                 /\ cache[i].prev = U32_MAX
        /\ (Done /\ result # None) => TeleportSteps(result[1]) \subseteq {1})

\* println! has returned and line 56 has not run: the line of the first
\* teleport is on stdout, the cache and the heap are without the teleport
C13_PrintedNotWritten ==
  /\ pc = "write" /\ nav_grid = TeleGrid /\ next_teleport = 1
  /\ index(start) = 0 /\ index(end) = N - 1 /\ game_state = Reqs
  /\ stdout = Printed(Terminal)
  /\ cache[N - 1] = DefaultCacheState /\ Len(queue) = 1

\* of the two met teleports to the far corner the cheap one opens the route,
\* and the free teleport that leads to the start cell itself is not taken
C13_Witness ==
  /\ Done /\ nav_grid = TeleGrid /\ result # None
  /\ index(start) = WIDTH - 1 /\ index(end) = N - 1 - WIDTH /\ game_state = Reqs
  /\ TeleportSteps(result[1]) = {1}
  /\ result[1][1] = StepEdge("tele_cheap")
  /\ Len(result[1]) = 2
  /\ TeleportCells(cache) = {N - 1}

\* C14 (as stated): every extraction from the heap hands out an entry of
\* lowest cost among those present and, among entries of equal cost, the one
\* inserted earliest.
C14_Original ==
  [][Extracts => Last(taken') = EarliestLowest(queue)]_vars

\* C14 (amended): every extraction from the heap hands out the entry of
\* lowest cost among those present and, among entries of equal cost, the one
\* with the greatest cell index, whenever it was inserted; the entry leaves
\* the heap and the others stay.
C14_LowestCostGreatestIndex ==
  [][Extracts =>
       /\ Last(taken') = GreatestIndexLowest(queue)
       /\ \A j \in 1 .. Len(queue) : LeU32(Last(taken').cost, queue[j].cost)
       /\ SeqToSet(queue) \ {Last(taken')} \subseteq SeqToSet(queue')]_vars

\* after some extractions the heap holds two entries of the lowest cost, and
\* the one pushed earlier has the smaller cell index
C14_Witness ==
  /\ pc = "loop" /\ Len(taken) >= 2 /\ queue # <<>>
  /\ EarliestLowest(queue) # GreatestIndexLowest(queue)
  /\ EarliestLowest(queue).index < GreatestIndexLowest(queue).index

\* C15 (as stated): when a cell is extracted, the cost used to relax its
\* neighbours is the cost recorded for the cell in the scratch store, not the
\* cost of the heap entry, and extracting a stale entry changes no scratch
\* entry.
C15_Original ==
  [][Extracts =>
       LET x == Last(taken')
       IN  /\ UsedCost(x, cache) = cache[x.index].cost
           /\ LtU32(cache[x.index].cost, x.cost) => cache' = cache]_vars

\* C15 (amended): when a cell is extracted, the cost used to relax its
\* neighbours is the cost of the heap entry, which is never below the cost
\* recorded for the cell and is above it exactly when the entry is stale;
\* extracting a stale entry changes no scratch entry and pushes nothing.
C15_StaleHarmless ==
  [][Extracts =>
       LET x == Last(taken')
       IN  /\ UsedCost(x, cache) = x.cost
           /\ LeU32(cache[x.index].cost, x.cost)
           /\ LtU32(cache[x.index].cost, x.cost) =>
                /\ cache' = cache
                /\ SeqToSet(queue') = SeqToSet(queue) \ {x}
                /\ Len(queue') = Len(queue) - 1]_vars

\* the entry popped last is stale: the cell was pushed by a teleport and
\* reached more cheaply on foot before the entry came out
C15_Witness ==
  /\ pc = "loop" /\ taken # <<>>
  /\ LtU32(cache[Last(taken).index].cost, Last(taken).cost)
  /\ cache[Last(taken).index].edge = None
  /\ \E t \in TeleportsTo(Last(taken).index) : t.cost = Last(taken).cost

\* C16: in the loop of one search a scratch entry is written only with a
\* strictly lower cost, its predecessor and edge written with it, and its
\* cell is pushed exactly then, with a cost below the one recorded before and
\* not below the one recorded after; so no recorded cost ever goes up, the
\* start cell keeps cost 0 with no predecessor and no edge, and every heap
\* entry costs at least what is recorded for its cell.
C16_StrictRelaxation ==
  /\ [][pc = "loop" =>
         /\ \A i \in Indices : LeU32(cache'[i].cost, cache[i].cost)
         /\ \A i \in Written :
              /\ LtU32(cache'[i].cost, cache[i].cost)
              /\ WrittenFrom(cache'[i], i, Last(taken').index, Last(taken').cost)
              /\ [cost |-> cache'[i].cost, index |-> i] \in Pushed
         /\ \A y \in Pushed :
              /\ y.index \in Written
              /\ LtU32(y.cost, cache[y.index].cost)
              /\ LeU32(cache'[y.index].cost, y.cost)
         /\ Len(queue') >= Len(queue) - 1 + Cardinality(Pushed)]_vars
  /\ [](/\ (pc # "idle" /\ SameGroup) =>
             cache[index(start)] = [cost |-> U32(0), prev |-> U32_MAX, edge |-> None]
        /\ \A k \in 1 .. Len(queue) : LeU32(cache[queue[k].index].cost, queue[k].cost))

\* a cell was written twice while one cell was expanded, by the move onto it
\* and then by a cheaper edge: the heap holds both entries, the recorded cost
\* is the lower one, and the start cell is as it was
C16_Witness ==
  /\ pc = "loop" /\ taken # <<>>
  /\ cache[index(start)] = [cost |-> U32(0), prev |-> U32_MAX, edge |-> None]
  /\ \E j \in 1 .. Len(queue), k \in 1 .. Len(queue) :
       /\ queue[j].index = queue[k].index
       /\ LtU32(queue[k].cost, queue[j].cost)
       /\ queue[k].cost = cache[queue[k].index].cost
       /\ cache[queue[k].index].edge # None
       /\ cache[queue[k].index].prev = U32(Last(taken).index)

\* the cell at the head of the queue is one the callback answers false on
Refused == fpc = "loop" /\ fqueue # <<>> /\ ~Answer(visit_vertex, Head(fqueue))

\* C17: in flood a false answer of the callback for a cell keeps that cell
\* from queueing anything and does nothing else: the cell is passed to the
\* callback, the rest of the queue and every visited mark stay as they are
\* and the loop goes on; a cell passed to the callback stays marked and is
\* neither queued nor passed again; and every cell in the queue is in the
\* end dequeued and passed to the callback: a cell leaves the queue only by
\* being passed to the callback, and the queue runs empty.
C17_FalseStopsOneCell ==
  /\ [][Refused =>
         /\ calls' = Append(calls, Head(fqueue))
         /\ fqueue' = Tail(fqueue)
         /\ fcache' = fcache
         /\ fpc' = "loop"]_vars
  /\ [](fpc = "loop" =>
          /\ NoDuplicates(calls)
          /\ \A i \in SeqToSet(calls) : fcache[i] /\ i \notin SeqToSet(fqueue))
  /\ [][fpc = "loop" =>
         \A i \in SeqToSet(fqueue) \ SeqToSet(fqueue') : calls' = Append(calls, i)]_vars
  /\ (fpc = "loop" /\ fqueue # <<>>) ~> (fpc = "loop" /\ fqueue = <<>>)
\* what is left of C17: the queue runs empty unless the call panics in a
\* build with overflow checks
C17_EmptiesOrPanics ==
  (fpc = "loop" /\ fqueue # <<>>) ~>
     ((fpc = "loop" /\ fqueue = <<>>) \/ (overflow_checks /\ fpc = "panic"))
\* the callback answered false on a cell, and the call panicked when it
\* expanded the next one, with a cell that was queued at the time of the
\* false answer still in the queue
C17_Panic ==
  /\ fpc = "panic" /\ nav_grid = TeleGrid /\ index(fstart) = 0
  /\ visit_vertex = {WIDTH} /\ calls = <<0, WIDTH, 1>>
  /\ WIDTH + 1 \in SeqToSet(fqueue)

\* the callback answered false on cell 1, whose neighbours were queued from
\* other cells and expanded after it: every cell was passed to the callback,
\* cell 1 once
C17_Witness ==
  /\ fpc = "done" /\ visit_vertex = {1}
  /\ nav_grid = TeleGrid /\ index(fstart) = 0
  /\ Len(calls) = N /\ NoDuplicates(calls)
  /\ \E j, k \in 1 .. Len(calls) : j < k /\ calls[j] = 1 /\ calls[k] = WIDTH + 1

\* the first extraction of its cell among the extractions so far
FirstTaken(k) == \A j \in 1 .. k - 1 : taken[j].index # taken[k].index

\* C18: the costs of the entries extracted one after another never go down,
\* and from the first time a cell is extracted on, the cost recorded for it
\* is the cost of that entry; when the search is over that cost is, for every
\* cell extracted, the minimum cost of reaching the cell from the start cell
\* at 0 and the destinations of the met teleports at their costs, zero-cost
\* edges included.
C18_Finality ==
  [](/\ \A k \in 1 .. Len(taken) - 1 : LeU32(taken[k].cost, taken[k + 1].cost)
     /\ \A k \in 1 .. Len(taken) :
          FirstTaken(k) => cache[taken[k].index].cost = taken[k].cost
     /\ Done =>
          LET dist == RefDist(nav_grid, game_state, index(start))
          IN  \A k \in 1 .. Len(taken) :
                FirstTaken(k) => Nat32(taken[k].cost) = Label(dist, taken[k].index))

\* a search that went through zero-cost edges and ended at cost 1, having
\* extracted a cell a second time on a stale entry
C18_Witness ==
  /\ Done /\ nav_grid = TeleGrid /\ result # None
  /\ \E k \in 1 .. Len(taken) : taken[k].cost = U32(0) /\ taken[k].index # index(start)
  /\ \E k \in 1 .. Len(taken) : ~FirstTaken(k)
  /\ LeU32(U32(1), Last(taken).cost)

\* the predecessor chain from the u32 index i reaches u32::MAX within n steps
RECURSIVE ChainWithin(_, _, _)
ChainWithin(c, i, n) ==
  IF i = U32_MAX THEN TRUE
  ELSE IF n = 0 THEN FALSE
  ELSE ChainWithin(c, c[Nat32(i)].prev, n - 1)

\* C19: on every grid, with zero-cost edges and cycles of extra edges, a
\* search that has begun ends: no heap entry is extracted twice, the
\* predecessor chain of every cell reached is free of cycles, so that the
\* reconstruction ends, and the loop comes to return, a route when end is
\* extracted and None when the heap is empty.
C19_SearchTerminates ==
  /\ [](/\ NoDuplicates(taken)
        /\ \A i \in Indices : LtU32(cache[i].cost, U32_MAX) => ChainWithin(cache, U32(i), N)
        /\ Done => \/ result = None /\ (queue = <<>> \/ ~SameGroup)
                   \/ result # None /\ Last(taken).index = index(end))
  /\ (pc = "seed" \/ pc = "write" \/ pc = "loop") ~> Done
\* the call is asleep in the println! of the teleport loop
AsleepInPrintln ==
  /\ pc = "seed" /\ next_teleport <= Len(nav_grid.teleports)
  /\ TeleportPasses(cache, nav_grid.teleports[next_teleport], game_state)
  /\ PrintTeleport(SeedState(cache, queue, stdout)).asleep
\* what is left of C19: a search that has begun returns, or panics (on the
\* arithmetic in a build with overflow checks, or in println! in the
\* teleport loop), or is asleep in println! for ever
C19_EndsOrPanics ==
  (pc = "seed" \/ pc = "write" \/ pc = "loop")
    ~> \/ Done
       \/ pc = "panic" /\ (overflow_checks \/ next_teleport <= Len(nav_grid.teleports))
       \/ [] AsleepInPrintln
\* a search that panicked on the move west out of its start cell, with
\* entries left in its heap
C19_Panic ==
  /\ pc = "panic" /\ nav_grid = OpenGrid /\ index(start) = 1 /\ index(end) = 0
  /\ Len(taken) = 1 /\ queue # <<>> /\ result = None

\* a search in the build without overflow checks that panicked in println!
\* at the first teleport it was to seed, with nothing written, one that
\* panicked at the second with the one before it seeded, and one asleep
\* in println! at the first
C19_PrintPanic ==
  /\ pc = "panic" /\ ~overflow_checks /\ nav_grid = TeleGrid /\ stdout = DevFull
  /\ index(start) = 1 /\ index(end) = N - 1 /\ game_state = Reqs
  /\ next_teleport = 1 /\ taken = <<>> /\ result = None
  /\ queue = <<[cost |-> U32(0), index |-> 1]>>
  /\ cache = [NewCache EXCEPT ![1].cost = U32(0)]
C19_PrintPanicLate ==
  /\ pc = "panic" /\ ~overflow_checks /\ nav_grid = TeleGrid
  /\ stdout = Printed(HeadOne)
  /\ index(start) = 1 /\ index(end) = N - 1 /\ game_state = Reqs
  /\ next_teleport = 2 /\ taken = <<>> /\ result = None
  /\ Len(queue) = 2 /\ TeleportCells(cache) = {N - 1}
C19_Asleep ==
  /\ AsleepInPrintln /\ ~overflow_checks /\ nav_grid = TeleGrid
  /\ stdout = UnreadPipe
  /\ index(start) = 1 /\ index(end) = N - 1 /\ game_state = Reqs
  /\ next_teleport = 1 /\ taken = <<>> /\ result = None

\* a search through the zero-cost cycle between cells 0 and 1 that emptied
\* the heap of everything but stale entries and returned a route
C19_Witness ==
  /\ Done /\ nav_grid = TeleGrid /\ result # None
  /\ index(start) = 1 /\ game_state = {}
  /\ cache[0].edge = Some(MkEdge(0, 0, <<>>, "back"))
  /\ Len(taken) >= N - 2

====
